---- MODULE Spec2Model ----
(***************************************************************************)
(* Model of the CEF C/C++ binding layer (libcef_dll): the generated        *)
(* CToCpp shims (drag handler, panel delegate, render process handler),    *)
(* the generated CppToC shims of the auth callback, the UnwrapDerived      *)
(* specialisations, and the wrapper templates they call.                   *)
(***************************************************************************)
EXTENDS Integers, Sequences, FiniteSets, TLC

\* ------------------------------------------------------------------ bounds
MaxObjs == 2        \* distinct managed objects per interface class
MaxHandles == 5     \* slots for CppToC reverse wrappers
MaxKept == 2        \* slots for reverse wrappers that outlive a call
MaxAdapters == 2    \* slots for CToCpp adapters
MaxStructs == 3     \* distinct foreign structs (cef_load_handler_t*, ...)
MaxRef == 2         \* cap on one handle's reference count
MaxRet == 2         \* foreign callbacks return an int in 0..MaxRet
MaxSimple == 1      \* by-value simple arguments range over 0..MaxSimple
MaxStr == 2         \* distinct string contents
MaxRegions == 2     \* longest regions vector
MaxRegionVal == 2   \* distinct draggable-region values
MaxThreads == 2     \* threads constructing and destroying wrappers
MaxCtors == 3       \* wrappers constructed in one run

Null == 0
Objs == 1..MaxObjs
RefArgs == {Null} \cup Objs
SimpleVals == 0..MaxSimple
HandleIds == 1..MaxHandles
AdapterIds == 1..MaxAdapters
StructPtrs == 1..MaxStructs

\* cef_draggable_region_t values and the vectors of them passed to the shim
RegionVals == 1..MaxRegionVal

RegionSeqs == UNION {[1..n -> RegionVals] : n \in 0..MaxRegions}

\* ------------------------------------------------- the function tables
DragHandlerMethods == {"on_drag_enter", "on_draggable_regions_changed"}

PanelDelegateMethods ==
  {"get_preferred_size", "get_minimum_size", "get_maximum_size",
   "get_height_for_width", "on_parent_view_changed", "on_child_view_changed"}

RenderProcessHandlerMethods ==
  {"on_render_thread_created", "on_web_kit_initialized", "on_browser_created",
   "on_browser_destroyed", "get_load_handler", "on_before_navigation",
   "on_context_created", "on_context_released", "on_uncaught_exception",
   "on_focused_node_changed", "on_process_message_received"}

Methods ==
  DragHandlerMethods \cup PanelDelegateMethods \cup RenderProcessHandlerMethods

\* A foreign implementation that supplies only some of the methods.
SomeMethods ==
  {"on_drag_enter", "get_preferred_size", "get_maximum_size",
   "on_parent_view_changed", "on_render_thread_created", "on_browser_created",
   "get_load_handler", "on_context_created", "on_uncaught_exception",
   "on_process_message_received"}

\* The tables a foreign implementation may supply: everything, nothing,
\* some of the methods, the others.
StructTables == {Methods, {}, SomeMethods, Methods \ SomeMethods}

Classes ==
  {"AuthCallback", "Browser", "DragData", "View", "ListValue", "Frame",
   "Request", "V8Context", "V8Exception", "V8StackTrace", "DOMNode",
   "ProcessMessage"}

VARIABLES
  dcheck,     \* DCHECK_IS_ON() of the build
  tbl,        \* function pointers present in the foreign struct under call
  wrappers,   \* CppToC reverse wrappers: slot -> [cls, obj, refct]
  objRef,     \* reference count of each managed object, by <<cls, obj>>
  owned,      \* managed objects whose managed-side owner still holds its ref
  adapters,   \* CToCpp adapters: slot -> [struct, refct]
  last,       \* the operation in progress / just finished, as observed
  dbg         \* DebugObjCt of one wrapper class and the threads touching it

vars == <<dcheck, tbl, wrappers, objRef, owned, adapters, last, dbg>>

\* ------------------------------------------------------------- values
Void == [kind |-> "void", v |-> 0, w |-> 0]
Bool(b) == [kind |-> "bool", v |-> IF b THEN 1 ELSE 0, w |-> 0]
IntVal(i) == [kind |-> "int", v |-> i, w |-> 0]
CefSize(width, height) == [kind |-> "size", v |-> width, w |-> height]
Ptr(p) == [kind |-> "ptr", v |-> p, w |-> 0]
NoValue == [kind |-> "none", v |-> 0, w |-> 0]

\* DefaultOf with `return true;` on the bool early-return lines.
DefaultOf_True(rtype) ==
  CASE rtype = "void" -> Void
    [] rtype = "bool" -> Bool(TRUE)
    [] rtype = "int" -> IntVal(1)
    [] rtype = "size" -> CefSize(1, 1)
    [] rtype = "ptr" -> Ptr(1)

\* The value each shim returns on its early-return lines.
DefaultOf(rtype) ==
  CASE rtype = "void" -> Void
    [] rtype = "bool" -> Bool(FALSE)
    [] rtype = "int" -> IntVal(0)
    [] rtype = "size" -> CefSize(0, 0)
    [] rtype = "ptr" -> Ptr(Null)

\* A translation that takes only 1 for true.
TranslateBool_OnlyOne(i) == Bool(i = 1)

\* "Return type: bool" is `_retval?true:false`; "Return type: simple" hands
\* the callback's value back.
TranslateBool(i) == Bool(i # 0)

TranslateRet(rtype, cal) ==
  CASE rtype = "void" -> Void
    [] rtype = "bool" -> TranslateBool(cal.v)
    [] rtype = "int" -> IntVal(cal.v)
    [] rtype = "size" -> CefSize(cal.v, cal.w)

Idle ==
  [op |-> "idle", args |-> <<>>, simple |-> <<>>, outcome |-> "none",
   retval |-> NoValue, calls |-> <<>>, wraps |-> <<>>, objcalls |-> <<>>,
   derefs |-> <<>>, trace |-> <<>>, cls |-> "", type |-> "",
   notreached |-> FALSE]

\* Number of occurrences of event e in a trace.
RECURSIVE Count(_, _)
Count(trace, e) ==
  IF trace = <<>> THEN 0
  ELSE (IF Head(trace) = e THEN 1 ELSE 0) + Count(Tail(trace), e)

\* ------------------------------------------- CefCppToC (template, cpptoc.h)
NoWrapper == [cls |-> "", obj |-> Null, refct |-> 0, fns |-> {}]

\* A constructor that leaves the struct's cancel member unset.
CtorTable_ContOnly(cls) ==
  IF cls = "AuthCallback" THEN {<<"cont", "auth_callback_cont">>} ELSE {}

\* The function pointers a reverse wrapper's constructor stores in its
\* struct, as <<member, function>> pairs: GetStruct()->cont =
\* auth_callback_cont; GetStruct()->cancel = auth_callback_cancel;
\* (CefAuthCallbackCppToC is the CppToC class of this model whose constructor
\* is given).
CtorTable(cls) ==
  IF cls = "AuthCallback"
  THEN {<<"cont", "auth_callback_cont">>, <<"cancel", "auth_callback_cancel">>}
  ELSE {}

\* The handle's struct has a member through which function f is called.
Callable(fns, f) == \E e \in fns : e[2] = f

Min(S) == CHOOSE x \in S : \A y \in S : x <= y

\* FindWrapper that takes any live wrapper of the class for the object's.
FindWrapper_AnyObject(w, cls, obj) ==
  {h \in DOMAIN w : w[h].refct > 0 /\ w[h].cls = cls}

\* FindWrapper that never finds the wrapper made earlier.
FindWrapper_None(w, cls, obj) == {}

FindWrapper(w, cls, obj) ==
  {h \in DOMAIN w : w[h].refct > 0 /\ w[h].cls = cls /\ w[h].obj = obj}

FreeIds(w) == {h \in DOMAIN w : w[h].refct = 0}

LiveIds(w) == {h \in DOMAIN w : w[h].refct > 0}

\* CppToC_Wrap whose new reverse wrapper takes no reference to the object.
CppToC_Wrap_NoAddRef(br, cls, obj) ==
  IF obj = Null THEN [br |-> br, h |-> Null]
  ELSE LET found == FindWrapper(br.w, cls, obj) IN
    IF found # {}
    THEN LET h == Min(found) IN
         [br |-> [br EXCEPT !.w[h].refct = @ + 1], h |-> h]
    ELSE LET h == Min(FreeIds(br.w)) IN
         [br |-> [br EXCEPT !.w[h] = [cls |-> cls, obj |-> obj, refct |-> 1,
                                      fns |-> CtorTable(cls)]],
          h |-> h]

\* Wrap: a null object gives a null handle; an object that already has a
\* reverse wrapper gets that handle again with one more reference; otherwise
\* a reverse wrapper is created, and it takes a reference to the object.
CppToC_Wrap(br, cls, obj) ==
  IF obj = Null THEN [br |-> br, h |-> Null]
  ELSE LET found == FindWrapper(br.w, cls, obj) IN
    IF found # {}
    THEN LET h == Min(found) IN
         [br |-> [br EXCEPT !.w[h].refct = @ + 1], h |-> h]
    ELSE LET h == Min(FreeIds(br.w)) IN
         [br |-> [w |-> [br.w EXCEPT ![h] =
                           [cls |-> cls, obj |-> obj, refct |-> 1,
                            fns |-> CtorTable(cls)]],
                  r |-> [br.r EXCEPT ![<<cls, obj>>] = @ + 1]],
          h |-> h]

\* base.release on a handle: the last release destroys the reverse wrapper,
\* which gives up its reference to the object.
CppToC_Release(br, h) ==
  IF h = Null \/ br.w[h].refct = 0 THEN br
  ELSE IF br.w[h].refct = 1
  THEN [w |-> [br.w EXCEPT ![h] = NoWrapper],
        r |-> [br.r EXCEPT ![<<br.w[h].cls, br.w[h].obj>>] = @ - 1]]
  ELSE [br EXCEPT !.w[h].refct = @ - 1]

\* Get: the object the handle's reverse wrapper holds.
CppToC_Get(w, h) == w[h].obj

\* Unwrap: the managed object that the handle was made for.
CppToC_Unwrap(w, h) == IF h = Null THEN Null ELSE w[h].obj

Param(cls, obj, req) == [cls |-> cls, obj |-> obj, req |-> req]

RECURSIVE WrapAll(_, _, _)
WrapAll(br, params, i) ==
  IF i > Len(params) THEN [br |-> br, hs |-> <<>>]
  ELSE LET r == CppToC_Wrap(br, params[i].cls, params[i].obj)
           rest == WrapAll(r.br, params, i + 1)
       IN [br |-> rest.br, hs |-> <<r.h>> \o rest.hs]

RECURSIVE ReleaseAll(_, _, _)
ReleaseAll(br, hs, i) ==
  IF i > Len(hs) THEN br
  ELSE ReleaseAll(CppToC_Release(br, hs[i]), hs, i + 1)

\* ------------------------------------------------ the foreign callee
\* What the function pointer does when called: it returns v (and w, for a
\* size) or raises; it keeps the handles it was given or releases them.
Callees(rtype, K) ==
  [outcome : {"ret", "throw"},
   v : IF rtype = "void" THEN {0}
       ELSE IF rtype = "size" THEN 0..1 ELSE 0..MaxRet,
   w : IF rtype = "size" THEN 0..1 ELSE {0},
   keep : K]

\* ------------------------------------------------ the CToCpp shim body
\* A shim without the missing-member test.
CEF_MEMBER_MISSING_Unchecked(s, f) == FALSE

\* CEF_MEMBER_MISSING(_struct, f): the struct has no function pointer for f.
CEF_MEMBER_MISSING(s, f) == f \notin s

\* MissingRequired with the "Verify param" blocks left out.
MissingRequired_Never(params) == FALSE

MissingRequired(params) ==
  \E i \in 1..Len(params) : params[i].req /\ params[i].obj = Null

Objects(params) == [i \in 1..Len(params) |-> params[i].obj]

NonNull(params) == {i \in 1..Len(params) : params[i].obj # Null}

\* A "Verify param" block placed after the first argument's Wrap.
VerifyFailed_AfterWrap(base, rtype) ==
  LET seen == [base EXCEPT !.wraps = << <<"Browser", base.args[1]>> >>,
                           !.trace = <<"wrap">>]
  IN IF dcheck
     THEN [seen EXCEPT !.outcome = "fatal"]
     ELSE [seen EXCEPT !.outcome = "returned", !.retval = DefaultOf(rtype)]

\* A failed "Verify param" block: DCHECK(x.get()); if (!x.get()) return ...;
\* nothing has been translated or wrapped when it runs.
VerifyFailed(base, rtype) ==
  IF dcheck
  THEN [base EXCEPT !.outcome = "fatal"]
  ELSE [base EXCEPT !.outcome = "returned", !.retval = DefaultOf(rtype)]

\* CEF_MEMBER_MISSING, then the "Verify param" block, then "Execute" and the
\* return translation, as generated for every virtual method.
Shim(op, fn, params, simple, rtype, cal) ==
  /\ last.outcome = "none"
  /\ Cardinality(FreeIds(wrappers)) >= Cardinality(NonNull(params))
  /\ \A i \in NonNull(params) : objRef[<<params[i].cls, params[i].obj>>] > 0
  /\ \A h \in LiveIds(wrappers) : wrappers[h].refct < MaxRef
  /\ LET base == [Idle EXCEPT !.op = op, !.args = Objects(params),
                              !.simple = simple]
     IN
     IF CEF_MEMBER_MISSING(tbl, fn)
     THEN /\ last' = [base EXCEPT !.outcome = "returned",
                                  !.retval = DefaultOf(rtype)]
          /\ UNCHANGED <<wrappers, objRef>>
     ELSE IF MissingRequired(params)
     THEN /\ last' = VerifyFailed(base, rtype)
          /\ UNCHANGED <<wrappers, objRef>>
     ELSE LET wr == WrapAll([w |-> wrappers, r |-> objRef], params, 1)
              call == [fn |-> fn, handles |-> wr.hs, simple |-> simple,
                       count |-> 0, list |-> <<>>, listNull |-> TRUE,
                       cv |-> cal.v, cw |-> cal.w,
                       threw |-> (cal.outcome = "throw")]
              after == IF cal.keep THEN wr.br
                       ELSE ReleaseAll(wr.br, wr.hs, 1)
          IN /\ last' = [base EXCEPT
                  !.calls = <<call>>,
                  !.wraps = [i \in 1..Len(params) |->
                               <<params[i].cls, params[i].obj>>],
                  !.trace = [i \in 1..Len(params) |-> "wrap"] \o <<"call">>,
                  !.outcome = IF cal.outcome = "throw" THEN "threw"
                              ELSE "returned",
                  !.retval = IF cal.outcome = "throw" THEN NoValue
                             ELSE TranslateRet(rtype, cal)]
             /\ wrappers' = after.w
             /\ objRef' = after.r
  /\ UNCHANGED <<dbg, dcheck, tbl, owned, adapters>>

\* ---------------------------------------------- CefDragHandlerCToCpp
OnDragEnter(K) ==
  \E browser \in RefArgs, dragData \in RefArgs, mask \in SimpleVals,
     cal \in Callees("bool", K) :
    Shim("OnDragEnter", "on_drag_enter",
         <<Param("Browser", browser, TRUE), Param("DragData", dragData, TRUE)>>,
         <<mask>>, "bool", cal)


\* regionsList[i] = regions[i] for i = 0 .. regionsCount-1, one element per
\* iteration of the loop.
RECURSIVE CopyRegions(_, _, _)
\* An array allocated for every count: `new cef_draggable_region_t[0]` is a
\* non-NULL pointer.
Allocates_Always(regionsCount) == TRUE

\* `if (regionsCount > 0) regionsList = new cef_draggable_region_t[...]`;
\* regionsList stays NULL otherwise.
Allocates(regionsCount) == regionsCount > 0

\* A copy loop whose bound is one short: `i + 1 < regionsCount`.
CopyRegions_OneShort(regions, regionsCount, i) ==
  [k \in 1..(regionsCount - 1) |-> regions[k]]

\* A copy loop that fills the array from its far end.
CopyRegions_Reversed(regions, regionsCount, i) ==
  [k \in 1..regionsCount |-> regions[regionsCount + 1 - k]]

CopyRegions(regions, regionsCount, i) ==
  IF i > regionsCount THEN <<>>
  ELSE <<regions[i]>> \o CopyRegions(regions, regionsCount, i + 1)

OnDraggableRegionsChanged(K) ==
  \E browser \in RefArgs, regions \in RegionSeqs, cal \in Callees("void", K) :
    /\ last.outcome = "none"
    /\ FreeIds(wrappers) # {}
    /\ browser # Null => objRef[<<"Browser", browser>>] > 0
    /\ \A h \in LiveIds(wrappers) : wrappers[h].refct < MaxRef
    /\ LET base == [Idle EXCEPT !.op = "OnDraggableRegionsChanged",
                                !.args = <<browser>>, !.simple = regions]
       IN
       IF CEF_MEMBER_MISSING(tbl, "on_draggable_regions_changed")
       THEN /\ last' = [base EXCEPT !.outcome = "returned", !.retval = Void]
            /\ UNCHANGED <<wrappers, objRef>>
       ELSE IF browser = Null
       THEN /\ last' = VerifyFailed(base, "void")
            /\ UNCHANGED <<wrappers, objRef>>
       ELSE LET regionsCount == Len(regions)
                allocated == Allocates(regionsCount)
                regionsList == IF allocated
                               THEN CopyRegions(regions, regionsCount, 1)
                               ELSE <<>>
                wr == CppToC_Wrap([w |-> wrappers, r |-> objRef],
                                  "Browser", browser)
                call == [fn |-> "on_draggable_regions_changed",
                         handles |-> <<wr.h>>, simple |-> <<>>,
                         count |-> regionsCount, list |-> regionsList,
                         listNull |-> ~allocated,
                         cv |-> cal.v, cw |-> cal.w,
                         threw |-> (cal.outcome = "throw")]
                after == IF cal.keep THEN wr.br
                         ELSE CppToC_Release(wr.br, wr.h)
                \* `if (regionsList) delete [] regionsList;` is the statement
                \* after the call: it runs only when the call returns.
                released == cal.outcome = "ret" /\ allocated
            IN /\ last' = [base EXCEPT
                    !.calls = <<call>>,
                    !.wraps = << <<"Browser", browser>> >>,
                    !.trace = (IF allocated THEN <<"alloc">> ELSE <<>>)
                              \o [i \in 1..Len(regionsList) |-> "copy"]
                              \o <<"wrap", "call">>
                              \o (IF released THEN <<"free">> ELSE <<>>),
                    !.outcome = IF cal.outcome = "throw" THEN "threw"
                                ELSE "returned",
                    !.retval = IF cal.outcome = "throw" THEN NoValue
                               ELSE Void]
               /\ wrappers' = after.w
               /\ objRef' = after.r
    /\ UNCHANGED <<dbg, dcheck, tbl, owned, adapters>>

\* -------------------------------------------- CefPanelDelegateCToCpp
GetPreferredSize(K) ==
  \E view \in RefArgs, cal \in Callees("size", K) :
    Shim("GetPreferredSize", "get_preferred_size",
         <<Param("View", view, TRUE)>>, <<>>, "size", cal)

GetMinimumSize(K) ==
  \E view \in RefArgs, cal \in Callees("size", K) :
    Shim("GetMinimumSize", "get_minimum_size",
         <<Param("View", view, TRUE)>>, <<>>, "size", cal)

GetMaximumSize(K) ==
  \E view \in RefArgs, cal \in Callees("size", K) :
    Shim("GetMaximumSize", "get_maximum_size",
         <<Param("View", view, TRUE)>>, <<>>, "size", cal)

GetHeightForWidth(K) ==
  \E view \in RefArgs, width \in SimpleVals, cal \in Callees("int", K) :
    Shim("GetHeightForWidth", "get_height_for_width",
         <<Param("View", view, TRUE)>>, <<width>>, "int", cal)

OnParentViewChanged(K) ==
  \E view \in RefArgs, added \in SimpleVals, parent \in RefArgs,
     cal \in Callees("void", K) :
    Shim("OnParentViewChanged", "on_parent_view_changed",
         <<Param("View", view, TRUE), Param("View", parent, TRUE)>>,
         <<added>>, "void", cal)

OnChildViewChanged(K) ==
  \E view \in RefArgs, added \in SimpleVals, child \in RefArgs,
     cal \in Callees("void", K) :
    Shim("OnChildViewChanged", "on_child_view_changed",
         <<Param("View", view, TRUE), Param("View", child, TRUE)>>,
         <<added>>, "void", cal)

\* ------------------------------------- CefRenderProcessHandlerCToCpp
OnRenderThreadCreated(K) ==
  \E extra_info \in RefArgs, cal \in Callees("void", K) :
    Shim("OnRenderThreadCreated", "on_render_thread_created",
         <<Param("ListValue", extra_info, TRUE)>>, <<>>, "void", cal)

OnWebKitInitialized(K) ==
  \E cal \in Callees("void", K) :
    Shim("OnWebKitInitialized", "on_web_kit_initialized",
         <<>>, <<>>, "void", cal)

OnBrowserCreated(K) ==
  \E browser \in RefArgs, cal \in Callees("void", K) :
    Shim("OnBrowserCreated", "on_browser_created",
         <<Param("Browser", browser, TRUE)>>, <<>>, "void", cal)

OnBrowserDestroyed(K) ==
  \E browser \in RefArgs, cal \in Callees("void", K) :
    Shim("OnBrowserDestroyed", "on_browser_destroyed",
         <<Param("Browser", browser, TRUE)>>, <<>>, "void", cal)

OnBeforeNavigation(K) ==
  \E browser \in RefArgs, frame \in RefArgs, request \in RefArgs,
     navigation_type \in SimpleVals, is_redirect \in SimpleVals,
     cal \in Callees("bool", K) :
    Shim("OnBeforeNavigation", "on_before_navigation",
         <<Param("Browser", browser, TRUE), Param("Frame", frame, TRUE),
           Param("Request", request, TRUE)>>,
         <<navigation_type, is_redirect>>, "bool", cal)

OnContextCreated(K) ==
  \E browser \in RefArgs, frame \in RefArgs, context \in RefArgs,
     cal \in Callees("void", K) :
    Shim("OnContextCreated", "on_context_created",
         <<Param("Browser", browser, TRUE), Param("Frame", frame, TRUE),
           Param("V8Context", context, TRUE)>>, <<>>, "void", cal)

OnContextReleased(K) ==
  \E browser \in RefArgs, frame \in RefArgs, context \in RefArgs,
     cal \in Callees("void", K) :
    Shim("OnContextReleased", "on_context_released",
         <<Param("Browser", browser, TRUE), Param("Frame", frame, TRUE),
           Param("V8Context", context, TRUE)>>, <<>>, "void", cal)

OnUncaughtException(K) ==
  \E browser \in RefArgs, frame \in RefArgs, context \in RefArgs,
     exception \in RefArgs, stackTrace \in RefArgs,
     cal \in Callees("void", K) :
    Shim("OnUncaughtException", "on_uncaught_exception",
         <<Param("Browser", browser, TRUE), Param("Frame", frame, TRUE),
           Param("V8Context", context, TRUE),
           Param("V8Exception", exception, TRUE),
           Param("V8StackTrace", stackTrace, TRUE)>>, <<>>, "void", cal)

\* "Unverified params: frame, node"
\* A variant with a "Verify param" block for frame and node as well.
OnFocusedNodeChanged_AllVerified(K) ==
  \E browser \in RefArgs, frame \in RefArgs, node \in RefArgs,
     cal \in Callees("void", K) :
    Shim("OnFocusedNodeChanged", "on_focused_node_changed",
         <<Param("Browser", browser, TRUE), Param("Frame", frame, TRUE),
           Param("DOMNode", node, TRUE)>>, <<>>, "void", cal)

\* "Unverified params: frame, node".
OnFocusedNodeChanged(K) ==
  \E browser \in RefArgs, frame \in RefArgs, node \in RefArgs,
     cal \in Callees("void", K) :
    Shim("OnFocusedNodeChanged", "on_focused_node_changed",
         <<Param("Browser", browser, TRUE), Param("Frame", frame, FALSE),
           Param("DOMNode", node, FALSE)>>, <<>>, "void", cal)

OnProcessMessageReceived(K) ==
  \E browser \in RefArgs, source_process \in SimpleVals,
     message \in RefArgs, cal \in Callees("bool", K) :
    Shim("OnProcessMessageReceived", "on_process_message_received",
         <<Param("Browser", browser, TRUE),
           Param("ProcessMessage", message, TRUE)>>,
         <<source_process>>, "bool", cal)

\* --------------------------------------------- CefCToCpp (template, ctocpp.h)
NoAdapter == [struct |-> Null, refct |-> 0]

FindAdapter(ad, s) == {a \in DOMAIN ad : ad[a].refct > 0 /\ ad[a].struct = s}

FreeAdapters(ad) == {a \in DOMAIN ad : ad[a].refct = 0}

LiveAdapters(ad) == {a \in DOMAIN ad : ad[a].refct > 0}

\* Wrap: a null struct gives a null adapter; a struct that already has an
\* adapter gets that adapter, with one more owner; otherwise one is created.
CToCpp_Wrap(ad, s) ==
  IF s = Null THEN [ad |-> ad, a |-> Null]
  ELSE LET found == FindAdapter(ad, s) IN
    IF found # {}
    THEN LET a == Min(found) IN
         [ad |-> [ad EXCEPT ![a].refct = @ + 1], a |-> a]
    ELSE LET a == Min(FreeAdapters(ad)) IN
         [ad |-> [ad EXCEPT ![a] = [struct |-> s, refct |-> 1]], a |-> a]

\* A managed-side owner drops its CefRefPtr; the last one destroys the adapter.
CToCpp_Release(ad, a) ==
  IF a = Null \/ ad[a].refct = 0 THEN ad
  ELSE IF ad[a].refct = 1 THEN [ad EXCEPT ![a] = NoAdapter]
  ELSE [ad EXCEPT ![a].refct = @ - 1]

\* The struct held by the adapter object c (adapter objects and the structs
\* they hold are different address ranges).
StructBase == 10

CToCpp_Unwrap(c) == IF c = Null THEN Null ELSE StructBase + c

\* get_load_handler returns a cef_load_handler_t* (or raises); the caller of
\* the shim keeps the CefRefPtr it gets back or drops it.
GetLoadHandler(K) ==
  \E s \in {Null} \cup StructPtrs, out \in {"ret", "throw"}, hold \in K :
    /\ last.outcome = "none"
    /\ FreeAdapters(adapters) # {}
    /\ \A a \in LiveAdapters(adapters) : adapters[a].refct < MaxRef
    /\ LET base == [Idle EXCEPT !.op = "GetLoadHandler"]
           call == [fn |-> "get_load_handler", handles |-> <<>>,
                    simple |-> <<>>, count |-> 0, list |-> <<>>,
                    listNull |-> TRUE, cv |-> s, cw |-> 0,
                    threw |-> (out = "throw")]
       IN
       IF CEF_MEMBER_MISSING(tbl, "get_load_handler")
       THEN /\ last' = [base EXCEPT !.outcome = "returned",
                                    !.retval = DefaultOf("ptr")]
            /\ UNCHANGED adapters
       ELSE IF out = "throw"
       THEN /\ last' = [base EXCEPT !.calls = <<call>>, !.trace = <<"call">>,
                                    !.outcome = "threw"]
            /\ UNCHANGED adapters
       ELSE LET wr == CToCpp_Wrap(adapters, s) IN
            /\ last' = [base EXCEPT !.calls = <<call>>,
                                    !.trace = <<"call", "ctocpp_wrap">>,
                                    !.outcome = "returned",
                                    !.retval = Ptr(wr.a)]
            /\ adapters' = IF hold THEN wr.ad ELSE CToCpp_Release(wr.ad, wr.a)
    /\ UNCHANGED <<dbg, dcheck, tbl, wrappers, objRef, owned>>

\* ------------------------------------------------------- UnwrapDerived
WrapperTypes ==
  {"WT_AUTH_CALLBACK", "WT_DRAG_HANDLER", "WT_PANEL_DELEGATE",
   "WT_RENDER_PROCESS_HANDLER", "WT_WINDOW_DELEGATE", "WT_LOAD_HANDLER"}

AdapterClasses ==
  {"CefAuthCallbackCppToC", "CefDragHandlerCToCpp", "CefPanelDelegateCToCpp",
   "CefRenderProcessHandlerCToCpp"}

\* Each specialisation gives [notreached, ptr]: whether the NOTREACHED()
\* statement was executed, and the pointer returned when the call returns.
AuthCallback_UnwrapDerived(type, s) == [notreached |-> TRUE, ptr |-> Null]

DragHandler_UnwrapDerived(type, c) == [notreached |-> TRUE, ptr |-> Null]

\* PanelDelegate_UnwrapDerived that tests for the adapter's own tag.
PanelDelegate_UnwrapDerived_OwnTag(type, c) ==
  IF type = "WT_PANEL_DELEGATE"
  THEN [notreached |-> FALSE, ptr |-> CToCpp_Unwrap(c)]
  ELSE [notreached |-> TRUE, ptr |-> Null]

\* PanelDelegate_UnwrapDerived that casts whatever the tag is.
PanelDelegate_UnwrapDerived_AnyTag(type, c) ==
  [notreached |-> FALSE, ptr |-> CToCpp_Unwrap(c)]

PanelDelegate_UnwrapDerived(type, c) ==
  IF type = "WT_WINDOW_DELEGATE"
  THEN [notreached |-> FALSE, ptr |-> CToCpp_Unwrap(c)]
  ELSE [notreached |-> TRUE, ptr |-> Null]

RenderProcessHandler_UnwrapDerived(type, c) ==
  [notreached |-> TRUE, ptr |-> Null]

\* The template's Unwrap calls UnwrapDerived with the wrapper type stored in
\* the object, so c is an object of the type the tag names.  NOTREACHED() is
\* fatal when DCHECK_IS_ON() and compiles to nothing otherwise.
UnwrapDerived ==
  \E cls \in AdapterClasses, type \in WrapperTypes, c \in Objs :
    /\ last.outcome = "none"
    /\ LET r == CASE cls = "CefAuthCallbackCppToC" ->
                     AuthCallback_UnwrapDerived(type, c)
                  [] cls = "CefDragHandlerCToCpp" ->
                     DragHandler_UnwrapDerived(type, c)
                  [] cls = "CefPanelDelegateCToCpp" ->
                     PanelDelegate_UnwrapDerived(type, c)
                  [] cls = "CefRenderProcessHandlerCToCpp" ->
                     RenderProcessHandler_UnwrapDerived(type, c)
           base == [Idle EXCEPT !.op = "UnwrapDerived", !.cls = cls,
                                !.type = type, !.args = <<c>>,
                                !.notreached = r.notreached]
       IN last' = IF r.notreached /\ dcheck
                  THEN [base EXCEPT !.outcome = "fatal"]
                  ELSE [base EXCEPT !.outcome = "returned",
                                    !.retval = Ptr(r.ptr)]
    /\ UNCHANGED <<dbg, dcheck, tbl, wrappers, objRef, owned, adapters>>

\* --------------------------------------------------- CefAuthCallbackCppToC
StrPtrs == 1..MaxStr

StrArgs == {Null} \cup StrPtrs

\* The characters a cef_string_t* points at (pointers and contents are
\* different ranges), which is what CefString(const cef_string_t*) holds.
StrBase == 20

CefString(p) == StrBase + p

LiveAuth(w) == {h \in LiveIds(w) : w[h].cls = "AuthCallback"}

ObjCall(w, r, self, method, args) ==
  LET x == CppToC_Get(w, self) IN
  [obj |-> x, method |-> method, args |-> args,
   alive |-> (r[<<"AuthCallback", x>>] > 0)]

\* ContResult without the check of password.
ContResult_NoPasswordCheck(self, username, password, out) ==
  LET base == [Idle EXCEPT !.op = "auth_callback_cont",
                           !.args = <<self, username, password>>]
      early == IF dcheck THEN [base EXCEPT !.outcome = "fatal"]
               ELSE [base EXCEPT !.outcome = "returned", !.retval = Void]
  IN IF self = Null THEN early
     ELSE IF username = Null THEN early
     ELSE [base EXCEPT
             !.derefs = <<self, username, password>>,
             !.objcalls = <<ObjCall(wrappers, objRef, self, "Continue",
                              <<CefString(username), CefString(password)>>)>>,
             !.outcome = IF out = "throw" THEN "threw" ELSE "returned",
             !.retval = IF out = "throw" THEN NoValue ELSE Void]

\* ContResult that passes password for username and username for password.
ContResult_Swapped(self, username, password, out) ==
  LET base == [Idle EXCEPT !.op = "auth_callback_cont",
                           !.args = <<self, username, password>>]
      early == IF dcheck THEN [base EXCEPT !.outcome = "fatal"]
               ELSE [base EXCEPT !.outcome = "returned", !.retval = Void]
  IN IF self = Null THEN early
     ELSE IF username = Null THEN early
     ELSE IF password = Null THEN early
     ELSE [base EXCEPT
             !.derefs = <<self, username, password>>,
             !.objcalls = <<ObjCall(wrappers, objRef, self, "Continue",
                              <<CefString(password), CefString(username)>>)>>,
             !.outcome = IF out = "throw" THEN "threw" ELSE "returned",
             !.retval = IF out = "throw" THEN NoValue ELSE Void]

\* The record of one call of auth_callback_cont; Continue() returns or raises.
ContResult(self, username, password, out) ==
  LET base == [Idle EXCEPT !.op = "auth_callback_cont",
                           !.args = <<self, username, password>>]
      early == IF dcheck THEN [base EXCEPT !.outcome = "fatal"]
               ELSE [base EXCEPT !.outcome = "returned", !.retval = Void]
  IN IF self = Null THEN early
     ELSE IF username = Null THEN early
     ELSE IF password = Null THEN early
     ELSE [base EXCEPT
             !.derefs = <<self, username, password>>,
             !.objcalls = <<ObjCall(wrappers, objRef, self, "Continue",
                              <<CefString(username), CefString(password)>>)>>,
             !.outcome = IF out = "throw" THEN "threw" ELSE "returned",
             !.retval = IF out = "throw" THEN NoValue ELSE Void]

\* The foreign caller reaches the function through the cont member of a
\* handle h it holds, and passes h or NULL as self.
auth_callback_cont ==
  \E h \in LiveAuth(wrappers), isNull \in BOOLEAN, username \in StrArgs,
     password \in StrArgs, out \in {"ret", "throw"} :
    /\ last.outcome = "none"
    /\ Callable(wrappers[h].fns, "auth_callback_cont")
    /\ last' = ContResult(IF isNull THEN Null ELSE h, username, password, out)
    /\ UNCHANGED <<dbg, dcheck, tbl, wrappers, objRef, owned, adapters>>

CancelResult(self, out) ==
  LET base == [Idle EXCEPT !.op = "auth_callback_cancel", !.args = <<self>>]
      early == IF dcheck THEN [base EXCEPT !.outcome = "fatal"]
               ELSE [base EXCEPT !.outcome = "returned", !.retval = Void]
  IN IF self = Null THEN early
     ELSE [base EXCEPT
             !.derefs = <<self>>,
             !.objcalls = <<ObjCall(wrappers, objRef, self, "Cancel", <<>>)>>,
             !.outcome = IF out = "throw" THEN "threw" ELSE "returned",
             !.retval = IF out = "throw" THEN NoValue ELSE Void]

auth_callback_cancel ==
  \E h \in LiveAuth(wrappers), isNull \in BOOLEAN, out \in {"ret", "throw"} :
    /\ last.outcome = "none"
    /\ Callable(wrappers[h].fns, "auth_callback_cancel")
    /\ last' = CancelResult(IF isNull THEN Null ELSE h, out)
    /\ UNCHANGED <<dbg, dcheck, tbl, wrappers, objRef, owned, adapters>>

\* ------------------------------------------- wrapping and handle lifetime
\* Managed code that holds a reference to x hands it to the foreign side.
WrapAuthCallback ==
  \E x \in Objs :
    /\ last.outcome = "none"
    /\ <<"AuthCallback", x>> \in owned
    /\ FreeIds(wrappers) # {}
    /\ \A h \in LiveIds(wrappers) : wrappers[h].refct < MaxRef
    /\ LET wr == CppToC_Wrap([w |-> wrappers, r |-> objRef],
                             "AuthCallback", x)
       IN /\ wrappers' = wr.br.w
          /\ objRef' = wr.br.r
          /\ last' = [Idle EXCEPT !.op = "Wrap", !.args = <<x>>,
                                  !.outcome = "returned",
                                  !.retval = Ptr(wr.h)]
    /\ UNCHANGED <<dbg, dcheck, tbl, owned, adapters>>

UnwrapAuthCallback ==
  \E h \in LiveAuth(wrappers) :
    /\ last.outcome = "none"
    /\ last' = [Idle EXCEPT !.op = "Unwrap", !.args = <<h>>,
                            !.outcome = "returned",
                            !.retval = Ptr(CppToC_Unwrap(wrappers, h))]
    /\ UNCHANGED <<dbg, dcheck, tbl, wrappers, objRef, owned, adapters>>

\* The foreign side takes or drops a reference to a handle it holds.
AddRefHandle ==
  \E h \in LiveIds(wrappers) :
    /\ last.outcome = "none"
    /\ wrappers[h].refct < MaxRef
    /\ wrappers' = [wrappers EXCEPT ![h].refct = @ + 1]
    /\ UNCHANGED <<dbg, dcheck, tbl, objRef, owned, adapters, last>>

ReleaseHandle ==
  \E h \in LiveIds(wrappers) :
    /\ last.outcome = "none"
    /\ LET br == CppToC_Release([w |-> wrappers, r |-> objRef], h)
       IN wrappers' = br.w /\ objRef' = br.r
    /\ UNCHANGED <<dbg, dcheck, tbl, owned, adapters, last>>

\* The managed-side owner of an object drops its reference.
OwnerRelease ==
  \E k \in owned :
    /\ last.outcome = "none"
    /\ k[1] = "AuthCallback"
    /\ owned' = owned \ {k}
    /\ objRef' = [objRef EXCEPT ![k] = @ - 1]
    /\ UNCHANGED <<dbg, dcheck, tbl, wrappers, adapters, last>>

\* A managed-side owner of an adapter drops its reference.
ReleaseAdapter ==
  \E a \in LiveAdapters(adapters) :
    /\ last.outcome = "none"
    /\ adapters' = CToCpp_Release(adapters, a)
    /\ UNCHANGED <<dbg, dcheck, tbl, wrappers, objRef, owned, last>>

\* ------------------------------------------------- DebugObjCt (DCHECK_IS_ON)
\* template<> base::AtomicRefCount Cef...::DebugObjCt = 0;  Wrapper
\* constructors add one and destructors take one away, from any thread.
Threads == 1..MaxThreads

ThreadIdle == [pc |-> "idle", reg |-> 0]

DebugInit ==
  [DebugObjCt |-> 0, thr |-> [t \in Threads |-> ThreadIdle],
   incs |-> 0, decs |-> 0, live |-> 0, overlapped |-> FALSE]

\* A plain read-modify-write of the counter: stores what the thread loaded
\* when it began, plus the delta.
AtomicRefCountAdd_Plain(cur, loaded, delta) == loaded + delta

\* base::AtomicRefCountInc / base::AtomicRefCountDec: one indivisible
\* read-modify-write of the counter's current value.
AtomicRefCountAdd(cur, loaded, delta) == cur + delta

Busy(t) == \E u \in Threads \ {t} : dbg.thr[u].pc # "idle"

\* A wrapper's constructor starts on thread t.
CtorBegin(t) ==
  /\ dbg.thr[t].pc = "idle"
  /\ dbg.incs + Cardinality({u \in Threads : dbg.thr[u].pc = "inc"})
       < MaxCtors
  /\ dbg' = [dbg EXCEPT !.thr[t] = [pc |-> "inc", reg |-> dbg.DebugObjCt],
                        !.overlapped = @ \/ Busy(t)]
  /\ UNCHANGED <<dcheck, tbl, wrappers, objRef, owned, adapters, last>>

\* The constructor's increment takes effect; the wrapper is live.
CtorEnd(t) ==
  /\ dbg.thr[t].pc = "inc"
  /\ dbg' = [dbg EXCEPT
       !.DebugObjCt = AtomicRefCountAdd(dbg.DebugObjCt, dbg.thr[t].reg, 1),
       !.thr[t] = ThreadIdle, !.incs = @ + 1, !.live = @ + 1]
  /\ UNCHANGED <<dcheck, tbl, wrappers, objRef, owned, adapters, last>>

\* The last reference to a live wrapper goes away on thread t.
DtorBegin(t) ==
  /\ dbg.thr[t].pc = "idle"
  /\ dbg.live > 0
  /\ dbg' = [dbg EXCEPT !.thr[t] = [pc |-> "dec", reg |-> dbg.DebugObjCt],
                        !.live = @ - 1,
                        !.overlapped = @ \/ Busy(t)]
  /\ UNCHANGED <<dcheck, tbl, wrappers, objRef, owned, adapters, last>>

\* The destructor's decrement takes effect.
DtorEnd(t) ==
  /\ dbg.thr[t].pc = "dec"
  /\ dbg' = [dbg EXCEPT
       !.DebugObjCt = AtomicRefCountAdd(dbg.DebugObjCt, dbg.thr[t].reg, -1),
       !.thr[t] = ThreadIdle, !.decs = @ + 1]
  /\ UNCHANGED <<dcheck, tbl, wrappers, objRef, owned, adapters, last>>

\* ------------------------------------------------------------------
\* The caller takes the result; the next call can start.  After a fatal
\* assertion the process is gone.
Done ==
  /\ last.outcome \in {"returned", "threw"}
  /\ last' = Idle
  /\ UNCHANGED <<dbg, dcheck, tbl, wrappers, objRef, owned, adapters>>

Init ==
  /\ dcheck \in BOOLEAN
  /\ tbl \in StructTables
  /\ wrappers = [h \in HandleIds |-> NoWrapper]
  /\ objRef = [k \in Classes \X Objs |-> 1]
  /\ owned = Classes \X Objs
  /\ adapters = [a \in AdapterIds |-> NoAdapter]
  /\ last = Idle
  /\ dbg = DebugInit

\* The shims, called with callees that release what they are handed before
\* they return.
Next ==
  \/ OnDragEnter({FALSE})
  \/ OnDraggableRegionsChanged({FALSE})
  \/ GetPreferredSize({FALSE})
  \/ GetMinimumSize({FALSE})
  \/ GetMaximumSize({FALSE})
  \/ GetHeightForWidth({FALSE})
  \/ OnParentViewChanged({FALSE})
  \/ OnChildViewChanged({FALSE})
  \/ OnRenderThreadCreated({FALSE})
  \/ OnWebKitInitialized({FALSE})
  \/ OnBrowserCreated({FALSE})
  \/ OnBrowserDestroyed({FALSE})
  \/ GetLoadHandler({FALSE})
  \/ OnBeforeNavigation({FALSE})
  \/ OnContextCreated({FALSE})
  \/ OnContextReleased({FALSE})
  \/ OnUncaughtException({FALSE})
  \/ OnFocusedNodeChanged({FALSE})
  \/ OnProcessMessageReceived({FALSE})
  \/ UnwrapDerived
  \/ Done

Spec == Init /\ [][Next]_vars

\* The auth callback's reverse wrappers, from Wrap to the last release.
InitLifetime ==
  /\ dcheck \in BOOLEAN
  /\ tbl = Methods
  /\ wrappers = [h \in 1..MaxKept |-> NoWrapper]
  /\ objRef = [k \in Classes \X Objs |-> 1]
  /\ owned = Classes \X Objs
  /\ adapters = [a \in AdapterIds |-> NoAdapter]
  /\ last = Idle
  /\ dbg = DebugInit

NextLifetime ==
  \/ WrapAuthCallback
  \/ UnwrapAuthCallback
  \/ auth_callback_cont
  \/ auth_callback_cancel
  \/ AddRefHandle
  \/ ReleaseHandle
  \/ OwnerRelease
  \/ Done

SpecLifetime == InitLifetime /\ [][NextLifetime]_vars

\* Shims whose callee or caller keeps what the shim wrapped for it.
NextReuse ==
  \/ OnBrowserCreated(BOOLEAN)
  \/ OnBrowserDestroyed(BOOLEAN)
  \/ GetLoadHandler(BOOLEAN)
  \/ ReleaseHandle
  \/ ReleaseAdapter
  \/ Done

\* The struct under call supplies the browser notifications or the load
\* handler getter.
InitReuse ==
  /\ dcheck \in BOOLEAN
  /\ tbl \in {{"on_browser_created", "on_browser_destroyed"},
              {"get_load_handler"}}
  /\ wrappers = [h \in 1..MaxKept |-> NoWrapper]
  /\ objRef = [k \in Classes \X Objs |-> 1]
  /\ owned = Classes \X Objs
  /\ adapters = [a \in AdapterIds |-> NoAdapter]
  /\ last = Idle
  /\ dbg = DebugInit

SpecReuse == InitReuse /\ [][NextReuse]_vars

\* A debug build whose wrappers are constructed and destroyed on several
\* threads at once.
InitCounter ==
  /\ dcheck = TRUE
  /\ tbl = Methods
  /\ wrappers = [h \in 1..MaxKept |-> NoWrapper]
  /\ objRef = [k \in Classes \X Objs |-> 1]
  /\ owned = Classes \X Objs
  /\ adapters = [a \in AdapterIds |-> NoAdapter]
  /\ last = Idle
  /\ dbg = DebugInit

NextCounter ==
  \/ \E t \in Threads : CtorBegin(t)
  \/ \E t \in Threads : CtorEnd(t)
  \/ \E t \in Threads : DtorBegin(t)
  \/ \E t \in Threads : DtorEnd(t)

SpecCounter == InitCounter /\ [][NextCounter]_vars

\* ======================================================================
\* The generated shims' signatures: function pointer, return type, and the
\* positions (among the object arguments) marked "Verify param".
DragHandlerShims ==
  {[op |-> "OnDragEnter", fn |-> "on_drag_enter", rtype |-> "bool",
    verify |-> {1, 2}],
   [op |-> "OnDraggableRegionsChanged", fn |-> "on_draggable_regions_changed",
    rtype |-> "void", verify |-> {1}]}

PanelDelegateShims ==
  {[op |-> "GetPreferredSize", fn |-> "get_preferred_size", rtype |-> "size",
    verify |-> {1}],
   [op |-> "GetMinimumSize", fn |-> "get_minimum_size", rtype |-> "size",
    verify |-> {1}],
   [op |-> "GetMaximumSize", fn |-> "get_maximum_size", rtype |-> "size",
    verify |-> {1}],
   [op |-> "GetHeightForWidth", fn |-> "get_height_for_width",
    rtype |-> "int", verify |-> {1}],
   [op |-> "OnParentViewChanged", fn |-> "on_parent_view_changed",
    rtype |-> "void", verify |-> {1, 2}],
   [op |-> "OnChildViewChanged", fn |-> "on_child_view_changed",
    rtype |-> "void", verify |-> {1, 2}]}

RenderProcessHandlerShims ==
  {[op |-> "OnRenderThreadCreated", fn |-> "on_render_thread_created",
    rtype |-> "void", verify |-> {1}],
   [op |-> "OnWebKitInitialized", fn |-> "on_web_kit_initialized",
    rtype |-> "void", verify |-> {}],
   [op |-> "OnBrowserCreated", fn |-> "on_browser_created",
    rtype |-> "void", verify |-> {1}],
   [op |-> "OnBrowserDestroyed", fn |-> "on_browser_destroyed",
    rtype |-> "void", verify |-> {1}],
   [op |-> "GetLoadHandler", fn |-> "get_load_handler",
    rtype |-> "ptr", verify |-> {}],
   [op |-> "OnBeforeNavigation", fn |-> "on_before_navigation",
    rtype |-> "bool", verify |-> {1, 2, 3}],
   [op |-> "OnContextCreated", fn |-> "on_context_created",
    rtype |-> "void", verify |-> {1, 2, 3}],
   [op |-> "OnContextReleased", fn |-> "on_context_released",
    rtype |-> "void", verify |-> {1, 2, 3}],
   [op |-> "OnUncaughtException", fn |-> "on_uncaught_exception",
    rtype |-> "void", verify |-> {1, 2, 3, 4, 5}],
   [op |-> "OnFocusedNodeChanged", fn |-> "on_focused_node_changed",
    rtype |-> "void", verify |-> {1}],
   [op |-> "OnProcessMessageReceived", fn |-> "on_process_message_received",
    rtype |-> "bool", verify |-> {1, 2}]}

ShimSigs == DragHandlerShims \cup PanelDelegateShims \cup RenderProcessHandlerShims

ShimOps == {i.op : i \in ShimSigs}

SigOf(op) == CHOOSE i \in ShimSigs : i.op = op

\* false for bool, nothing for void, CefSize() for a size, 0 for int, NULL
\* for an object.
DocumentedDefault(rtype) ==
  CASE rtype = "bool" -> [kind |-> "bool", v |-> 0, w |-> 0]
    [] rtype = "void" -> [kind |-> "void", v |-> 0, w |-> 0]
    [] rtype = "size" -> [kind |-> "size", v |-> 0, w |-> 0]
    [] rtype = "int" -> [kind |-> "int", v |-> 0, w |-> 0]
    [] rtype = "ptr" -> [kind |-> "ptr", v |-> 0, w |-> 0]

\* A CToCpp shim was called with its function pointer present and a null
\* reference for a parameter marked "Verify param".
NullVerified ==
  /\ last.op \in ShimOps
  /\ SigOf(last.op).fn \in tbl
  /\ \E i \in SigOf(last.op).verify : last.args[i] = Null

\* C1 (as amended): a CToCpp shim whose function pointer is present and that
\* gets a null reference for a "Verify param" parameter never invokes the
\* function pointer; in a build without DCHECKs it returns the method's
\* default, and in a DCHECK build the failed DCHECK ends the process instead.
C1_NullRequiredNoCall ==
  NullVerified =>
    /\ last.calls = <<>>
    /\ IF dcheck THEN last.outcome = "fatal"
       ELSE /\ last.outcome = "returned"
            /\ last.retval = DocumentedDefault(SigOf(last.op).rtype)

\* C1 as stated: the shim returns the default, and makes no call.
C1_AsStated ==
  NullVerified =>
    /\ last.outcome = "returned"
    /\ last.retval = DocumentedDefault(SigOf(last.op).rtype)
    /\ last.calls = <<>>

C1_Witness ==
  /\ NullVerified
  /\ last.op = "OnBeforeNavigation"
  /\ last.args[1] # Null /\ last.args[2] # Null /\ last.args[3] = Null
  /\ last.outcome = "returned"
  /\ last.retval.kind = "bool"

\* A CToCpp shim was called on a struct that lacks its function pointer.
MissingMember ==
  /\ last.op \in ShimOps
  /\ SigOf(last.op).fn \notin tbl

\* C2: a CToCpp shim whose function pointer is missing returns the default
\* of its return type and invokes no function pointer, whatever the other
\* entries of the table and whatever its arguments.
C2_MissingMemberDefault ==
  MissingMember =>
    /\ last.outcome = "returned"
    /\ last.retval = DocumentedDefault(SigOf(last.op).rtype)
    /\ last.calls = <<>>

C2_Witness ==
  /\ MissingMember
  /\ Cardinality(tbl) > 1
  /\ last.op = "GetHeightForWidth"
  /\ last.args[1] # Null
  /\ last.retval = [kind |-> "int", v |-> 0, w |-> 0]

\* A CppToC shim of the auth callback was called with a null self, username
\* or password.
AuthNullArg ==
  \/ /\ last.op = "auth_callback_cont"
     /\ \E i \in 1..3 : last.args[i] = Null
  \/ /\ last.op = "auth_callback_cancel"
     /\ last.args[1] = Null

\* C3 (as amended): auth_callback_cont with a null self, username or
\* password, and auth_callback_cancel with a null self, call neither Continue
\* nor Cancel and dereference no pointer; they return in a build without
\* DCHECKs, and the failed DCHECK ends the process in a DCHECK build.
C3_AuthNullNoCall ==
  AuthNullArg =>
    /\ last.objcalls = <<>>
    /\ last.derefs = <<>>
    /\ IF dcheck THEN last.outcome = "fatal" ELSE last.outcome = "returned"

\* C3 as stated: the shim returns, without a call or a dereference.
C3_AsStated ==
  AuthNullArg =>
    /\ last.outcome = "returned"
    /\ last.objcalls = <<>>
    /\ last.derefs = <<>>

C3_Witness ==
  /\ last.op = "auth_callback_cont"
  /\ last.args[1] # Null /\ last.args[2] # Null /\ last.args[3] = Null
  /\ last.outcome = "returned"
  /\ last.objcalls = <<>>

\* C4: the handle that Wrap returns for a managed object x unwraps to x,
\* whatever was wrapped, unwrapped and released before.
C4_UnwrapOfWrap ==
  last.op = "Wrap" =>
    /\ last.retval.v # Null
    /\ CppToC_Unwrap(wrappers, last.retval.v) = last.args[1]

C4_Witness ==
  /\ last.op = "Wrap"
  /\ \E h \in LiveAuth(wrappers) :
       h # last.retval.v /\ wrappers[h].obj # last.args[1]

\* C5: cont through a handle with non-null username and password makes
\* exactly one call, Continue(username, password), on the object the handle
\* was made for, and cancel through a handle makes exactly one call,
\* Cancel(), on it.
C5_ForwardsToWrapped ==
  /\ (last.op = "auth_callback_cont" /\ \A i \in 1..3 : last.args[i] # Null)
       => last.objcalls =
            << [obj |-> wrappers[last.args[1]].obj, method |-> "Continue",
                args |-> <<StrBase + last.args[2], StrBase + last.args[3]>>,
                alive |-> TRUE] >>
  /\ (last.op = "auth_callback_cancel" /\ last.args[1] # Null)
       => last.objcalls =
            << [obj |-> wrappers[last.args[1]].obj, method |-> "Cancel",
                args |-> <<>>, alive |-> TRUE] >>

C5_Witness ==
  /\ last.op = "auth_callback_cont"
  /\ last.outcome = "returned"
  /\ Len(last.objcalls) = 1
  /\ last.args[2] # last.args[3]

\* C6: OnDraggableRegionsChanged releases the array it allocated exactly
\* once on every exit, also when the forwarded call raises.
C6_ArrayReleasedOnEveryExit ==
  (last.op = "OnDraggableRegionsChanged" /\ last.outcome # "none")
    => Count(last.trace, "free") = Count(last.trace, "alloc")

\* C7: the panel delegate's UnwrapDerived returns, for WT_WINDOW_DELEGATE,
\* what CefWindowDelegateCToCpp::Unwrap gives for c; every other tag, and
\* every tag of the auth callback, drag handler and render process handler,
\* reaches NOTREACHED() "Unexpected class type".
C7_RoutesByTag ==
  last.op = "UnwrapDerived" =>
    IF last.cls = "CefPanelDelegateCToCpp" /\ last.type = "WT_WINDOW_DELEGATE"
    THEN /\ ~last.notreached
         /\ last.outcome = "returned"
         /\ last.retval = [kind |-> "ptr", v |-> CToCpp_Unwrap(last.args[1]),
                           w |-> 0]
    ELSE /\ last.notreached
         /\ last.retval.v = Null

C7_Witness ==
  /\ last.op = "UnwrapDerived"
  /\ last.cls = "CefPanelDelegateCToCpp"
  /\ last.type = "WT_WINDOW_DELEGATE"
  /\ last.retval.v # Null

\* UnwrapDerived returned the pointer of the type its tag names.
ReturnedDerived ==
  /\ last.outcome = "returned"
  /\ last.cls = "CefPanelDelegateCToCpp"
  /\ last.type = "WT_WINDOW_DELEGATE"
  /\ last.retval.v = CToCpp_Unwrap(last.args[1])
  /\ last.retval.v # Null

\* C8 (as amended): UnwrapDerived never returns a non-null pointer of a type
\* other than the one the tag names; in a DCHECK build it either returns the
\* correctly-derived pointer or fails fatally, and in a build without DCHECKs
\* a tag with no known derived type makes it return NULL to its caller.
C8_NeverWronglyTyped ==
  last.op = "UnwrapDerived" =>
    /\ last.retval.v # Null => ReturnedDerived
    /\ dcheck => (last.outcome = "fatal" \/ ReturnedDerived)
    /\ ~dcheck => (last.outcome = "returned"
                    /\ (ReturnedDerived \/ last.retval = Ptr(Null)))

\* C8 as stated: in every build, the derived pointer or a fatal error.
C8_AsStated ==
  last.op = "UnwrapDerived" => (last.outcome = "fatal" \/ ReturnedDerived)

C8_Witness ==
  /\ last.op = "UnwrapDerived"
  /\ ~dcheck
  /\ last.notreached
  /\ last.outcome = "returned"
  /\ last.retval.v = Null

\* C9: while a reverse wrapper's handle has a reference count above zero,
\* the object it was made for has not been destroyed, and a call through
\* the handle reaches a live object.
C9_HandleKeepsObjectAlive ==
  /\ \A h \in LiveIds(wrappers) :
       objRef[<<wrappers[h].cls, wrappers[h].obj>>] > 0
  /\ \A i \in 1..Len(last.objcalls) : last.objcalls[i].alive

C9_Witness ==
  /\ last.op = "auth_callback_cont"
  /\ Len(last.objcalls) = 1
  /\ <<"AuthCallback", last.objcalls[1].obj>> \notin owned

\* C10: no managed object has two live reverse wrappers and no foreign
\* struct has two live adapters: a second Wrap gives the first one again.
C10_OneWrapperPerObject ==
  /\ \A h1, h2 \in LiveIds(wrappers) :
       (wrappers[h1].cls = wrappers[h2].cls
          /\ wrappers[h1].obj = wrappers[h2].obj) => h1 = h2
  /\ \A a1, a2 \in LiveAdapters(adapters) :
       adapters[a1].struct = adapters[a2].struct => a1 = a2

C10_Witness ==
  /\ last.op = "OnBrowserDestroyed"
  /\ Len(last.calls) = 1
  /\ wrappers[last.calls[1].handles[1]].cls = "Browser"
  /\ wrappers[last.calls[1].handles[1]].obj = last.args[1]
  /\ wrappers[last.calls[1].handles[1]].refct >= 2

\* C11: the debug live-instance counter, starting at 0 and incremented and
\* decremented by the wrappers' constructors and destructors on several
\* threads in any interleaving, always equals the number of increments done
\* minus the number of decrements done (no update is lost), and is never
\* below the number of wrappers still live, hence never negative.
C11_NoLostUpdate ==
  /\ dbg.DebugObjCt = dbg.incs - dbg.decs
  /\ dbg.DebugObjCt >= dbg.live
  /\ dbg.DebugObjCt >= 0
  /\ (\A t \in Threads : dbg.thr[t].pc = "idle") =>
       dbg.DebugObjCt = dbg.live

\* Two threads were inside a constructor or destructor at once, and all of
\* them have finished.
C11_Witness ==
  /\ dbg.overlapped
  /\ \A t \in Threads : dbg.thr[t].pc = "idle"
  /\ dbg.incs >= 2
  /\ dbg.decs >= 1
  /\ dbg.DebugObjCt = dbg.incs - dbg.decs

\* A CToCpp shim made its forwarded call and the callee returned.
Forwarded ==
  /\ last.op \in ShimOps
  /\ Len(last.calls) = 1
  /\ ~last.calls[1].threw

\* C12: a boolean-returning shim (OnDragEnter, OnBeforeNavigation,
\* OnProcessMessageReceived) returns false exactly when the callback returned
\* 0 and true for 1 and for every other non-zero value; a shim with a simple
\* return type (GetHeightForWidth, GetPreferredSize, GetMinimumSize,
\* GetMaximumSize) returns the callback's value unchanged.
C12_ReturnTranslation ==
  Forwarded =>
    LET rtype == SigOf(last.op).rtype
        c == last.calls[1]
    IN /\ last.outcome = "returned"
       /\ rtype = "bool" =>
            last.retval = [kind |-> "bool", w |-> 0,
                           v |-> IF c.cv = 0 THEN 0 ELSE 1]
       /\ rtype = "int" => last.retval = [kind |-> "int", v |-> c.cv, w |-> 0]
       /\ rtype = "size" =>
            last.retval = [kind |-> "size", v |-> c.cv, w |-> c.cw]

\* The callback of a boolean-returning shim returned 2 and the shim
\* returned true.
C12_Witness ==
  /\ Forwarded
  /\ last.op = "OnProcessMessageReceived"
  /\ last.calls[1].cv = 2
  /\ last.retval = [kind |-> "bool", v |-> 1, w |-> 0]

\* OnFocusedNodeChanged was called on a struct that has
\* on_focused_node_changed.
FocusedNodeChanged ==
  /\ last.op = "OnFocusedNodeChanged"
  /\ "on_focused_node_changed" \in tbl

\* C13: OnFocusedNodeChanged called with a non-null browser on a struct that
\* has on_focused_node_changed invokes it exactly once for every combination
\* of null and non-null frame and node, handing over a null handle for each
\* null argument and a handle for each non-null one; only a null browser
\* suppresses the call.
C13_OptionalFrameAndNode ==
  FocusedNodeChanged =>
    IF last.args[1] = Null
    THEN last.calls = <<>>
    ELSE /\ Len(last.calls) = 1
         /\ last.calls[1].fn = "on_focused_node_changed"
         /\ last.calls[1].handles[1] # Null
         /\ \A i \in {2, 3} :
              (last.calls[1].handles[i] = Null) <=> (last.args[i] = Null)

\* The call was made with a browser and neither frame nor node.
C13_Witness ==
  /\ FocusedNodeChanged
  /\ last.args[1] # Null /\ last.args[2] = Null /\ last.args[3] = Null
  /\ Len(last.calls) = 1
  /\ last.calls[1].handles[2] = Null /\ last.calls[1].handles[3] = Null
  /\ last.outcome = "returned"

\* C14: no shim lets an error cross the boundary: when the callee a shim
\* forwards to raises, the shim still returns normally to its caller, with a
\* value of its declared return type.
C14_NoErrorCrosses ==
  (/\ last.op \in ShimOps
   /\ Len(last.calls) = 1
   /\ last.calls[1].threw) =>
    /\ last.outcome = "returned"
    /\ last.retval.kind = SigOf(last.op).rtype

\* OnDraggableRegionsChanged made its forwarded call.
RegionsForwarded ==
  /\ last.op = "OnDraggableRegionsChanged"
  /\ Len(last.calls) = 1

\* C15: the regions vector crosses the boundary as a count and an array: the
\* callback receives count = regions.size(), element i of the array equals
\* regions[i] for every i below count, in order, and the shim frees the array
\* only after the callback has returned.
C15_SequenceMarshalled ==
  RegionsForwarded =>
    LET regions == last.simple
        c == last.calls[1]
    IN /\ c.count = Len(regions)
       /\ c.count > 0 =>
            /\ ~c.listNull
            /\ Len(c.list) = c.count
            /\ \A i \in 1..c.count : c.list[i] = regions[i]
       /\ \A i \in 1..Len(last.trace) :
            last.trace[i] = "free" =>
              /\ ~c.threw
              /\ \E j \in 1..(i - 1) : last.trace[j] = "call"

\* A vector of two different regions was handed over and the array freed
\* after the call.
C15_Witness ==
  /\ RegionsForwarded
  /\ Len(last.simple) = 2
  /\ last.simple[1] # last.simple[2]
  /\ last.calls[1].list = last.simple
  /\ last.outcome = "returned"
  /\ last.trace[Len(last.trace)] = "free"

\* C17: no shim blocks: a shim makes at most one forwarded call and, when
\* that call returns, returns to its caller; its only loop, the element copy
\* of OnDraggableRegionsChanged, runs exactly regions.size() times.
C17_ShimTerminates ==
  last.op \in ShimOps =>
    /\ Len(last.calls) <= 1
    /\ Forwarded => last.outcome = "returned"
    /\ Count(last.trace, "call") = Len(last.calls)
    /\ RegionsForwarded =>
         Count(last.trace, "copy") = Len(last.simple)
    /\ last.op # "OnDraggableRegionsChanged" =>
         Count(last.trace, "copy") = 0

\* OnDraggableRegionsChanged copied two regions, made its call and returned.
C17_Witness ==
  /\ RegionsForwarded
  /\ Forwarded
  /\ Len(last.simple) = 2
  /\ Count(last.trace, "copy") = 2
  /\ last.outcome = "returned"

\* A CToCpp shim left before its "Execute" block: its function pointer is
\* missing or a "Verify param" parameter is a null reference.
LeftEarly ==
  /\ last.op \in ShimOps
  /\ \/ SigOf(last.op).fn \notin tbl
     \/ \E i \in SigOf(last.op).verify : last.args[i] = Null

\* C19: in every CToCpp shim the checks come before any translation: a step
\* in which a shim leaves early (missing function pointer or null required
\* argument) wraps no argument, allocates no array, forwards no call, and
\* leaves every reverse wrapper and every reference count as it was; e.g.
\* OnBeforeNavigation with a browser, a frame and a null request wraps
\* neither the browser nor the frame.
C19_ChecksBeforeWraps ==
  [][LeftEarly' =>
       /\ last'.wraps = <<>>
       /\ last'.trace = <<>>
       /\ last'.calls = <<>>
       /\ wrappers' = wrappers
       /\ objRef' = objRef]_vars

\* OnBeforeNavigation left early on its null request, after a browser and a
\* frame that were both there.
C19_Witness ==
  /\ LeftEarly
  /\ last.op = "OnBeforeNavigation"
  /\ "on_before_navigation" \in tbl
  /\ last.args[1] # Null /\ last.args[2] # Null /\ last.args[3] = Null
  /\ last.wraps = <<>>
  /\ last.outcome \in {"returned", "fatal"}

\* A CToCpp shim was called on a struct that lacks its function pointer,
\* with a null reference for a parameter marked "Verify param".
MissingMemberNullArg ==
  /\ MissingMember
  /\ \E i \in SigOf(last.op).verify : last.args[i] = Null

\* C20: the missing-function-pointer test comes before the required-
\* parameter checks: a shim whose function pointer is missing returns its
\* default for every combination of arguments, and its DCHECK is never
\* reached, not even in a DCHECK build with a null required argument.
C20_MissingBeforeVerify ==
  MissingMemberNullArg =>
    /\ last.outcome # "fatal"
    /\ last.outcome = "returned"
    /\ last.retval = DocumentedDefault(SigOf(last.op).rtype)
    /\ last.calls = <<>>

\* In a DCHECK build OnParentViewChanged, lacking its function pointer, was
\* called with a null view and returned.
C20_Witness ==
  /\ dcheck
  /\ MissingMemberNullArg
  /\ last.op = "OnParentViewChanged"
  /\ last.args[1] = Null
  /\ last.outcome = "returned"

\* C21: OnDraggableRegionsChanged called with an empty regions vector, a
\* non-null browser and its function pointer present still invokes
\* on_draggable_regions_changed exactly once, with count 0 and a NULL array
\* pointer, allocating and releasing no array; whatever the vector, the array
\* pointer handed over is non-NULL exactly when count > 0.
C21_EmptyVectorNullArray ==
  /\ (/\ last.op = "OnDraggableRegionsChanged"
      /\ "on_draggable_regions_changed" \in tbl
      /\ last.args[1] # Null
      /\ last.simple = <<>>) =>
       /\ Len(last.calls) = 1
       /\ last.calls[1].fn = "on_draggable_regions_changed"
       /\ last.calls[1].count = 0
       /\ last.calls[1].listNull
       /\ Count(last.trace, "alloc") = 0
       /\ Count(last.trace, "free") = 0
  /\ RegionsForwarded =>
       (~last.calls[1].listNull <=> last.calls[1].count > 0)

\* The callback was invoked for an empty vector and returned.
C21_Witness ==
  /\ RegionsForwarded
  /\ last.simple = <<>>
  /\ last.args[1] # Null
  /\ last.calls[1].count = 0
  /\ last.calls[1].listNull
  /\ last.outcome = "returned"

\* C22: every live reverse-wrapper handle of the auth callback has its whole
\* function-pointer table populated from construction on (cont =
\* auth_callback_cont, cancel = auth_callback_cancel, neither null), and no
\* shim invocation, reference-count operation or other step changes an entry
\* of the table while the handle lives.
C22_TableFixed ==
  /\ \A h \in LiveAuth(wrappers) :
       wrappers[h].fns = {<<"cont", "auth_callback_cont">>,
                          <<"cancel", "auth_callback_cancel">>}
  /\ \A h \in DOMAIN wrappers :
       wrappers[h].refct = 0 => wrappers[h].fns = {}

\* A shim of a handle has run and returned, the handle has more than one
\* reference, and its table is the constructor's.
C22_Witness ==
  /\ last.op \in {"auth_callback_cont", "auth_callback_cancel"}
  /\ last.outcome = "returned"
  /\ last.objcalls # <<>>
  /\ \E h \in LiveAuth(wrappers) :
       /\ wrappers[h].refct > 1
       /\ wrappers[h].fns = {<<"cont", "auth_callback_cont">>,
                             <<"cancel", "auth_callback_cancel">>}

====
